---- MODULE Spec2Model ----
(***************************************************************************)
(* Model of the ModuleLoader of packages/cli/src/module-loader.ts: the     *)
(* descriptor locator (findModules), the recursive loader (loadGirModules) *)
(* with its transitive-dependency computation, the conflict grouper        *)
(* (groupGirFiles) and the interactive conflict resolver                   *)
(* (askForEachConflictVersionsPrompt), driven through the public entry     *)
(* points getModules and getModulesResolved.                               *)
(*                                                                         *)
(* A loaded module (GirModuleResolvedBy) is identified by its position in  *)
(* the girModules array, which is the object identity the code's Sets and  *)
(* arrays share.  The gir directories are modelled as the set of package   *)
(* names that have a .gir file in one of them; the dependency list of a    *)
(* document is drawn when the document is parsed (loadAndCreateGirModule), *)
(* which is the only place the code reads it, and the entry point and its  *)
(* doNotAskForVersionOnConflict argument are drawn where the code first    *)
(* reads them, after loadGirModules has returned.  A document is taken to  *)
(* declare the package its file is named after.                            *)
(*                                                                         *)
(* Spec runs the entry points over a directory of three documents,         *)
(* WideSpec runs them with the pattern '*' over a directory of four, three *)
(* of them versions of one namespace, and LoaderSpec is loadGirModules     *)
(* alone under weak fairness.  SymSpec is the SymTable class found in      *)
(* examples/Gjs/gio-2-cat/main.ts: method calls of several instances on    *)
(* the one static table; SymRunsSpec is the same class over fewer          *)
(* references and one call more.                                           *)
(***************************************************************************)
EXTENDS Integers, Sequences, FiniteSets, TLC

\* ------------------------------------------------------------------ bounds

\* most dependency entries the documents of one run declare, all together
MaxEdges == 2
\* longest `modules` argument (name patterns)
MaxRequested == 1
\* longest `ignore` argument
MaxIgnore == 1
\* 'Go back' answers the prompter may give in one run
MaxGoBack == 1
\* most dependency entries of the documents of a run over the wide directory
MaxWideEdges == 1
\* longest `dependencies` array handed to a SymTable method
MaxSymDeps == 2
\* SymTable method calls in one process
MaxSymCalls == 2

\* ------------------------------------------------------------ name universe

\* The package names "<Namespace>-<Version>" a run can meet, in directory order.
NameOrder == <<"Gdk-3.0", "Gtk-3.0", "Gtk-4.0">>

PackageNames == {NameOrder[i] : i \in 1..Len(NameOrder)}

\* A directory that also holds a third version of Gtk, whose document spells
\* the namespace in capitals.
WideOrder == <<"Gdk-3.0", "GTK-2.0", "Gtk-3.0", "Gtk-4.0">>

WideNames == {WideOrder[i] : i \in 1..Len(WideOrder)}

\* The wildcard pattern of findModules ('*'); every other pattern is a plain name.
Wildcard == "*"

Patterns == PackageNames \cup {Wildcard}

\* splitModuleName(packageName).namespace: the text before the '-'
splitModuleName(packageName) ==
    CASE packageName = "Gdk-3.0" -> "Gdk"
      [] packageName = "GTK-2.0" -> "GTK"
      [] packageName = "Gtk-3.0" -> "Gtk"
      [] packageName = "Gtk-4.0" -> "Gtk"
      [] OTHER -> packageName

\* String.prototype.toLowerCase on the namespaces above
toLowerCase(namespace) ==
    CASE namespace = "Gdk" -> "gdk"
      [] namespace = "Gtk" -> "gtk"
      [] namespace = "GTK" -> "gtk"
      [] OTHER -> namespace

\* ------------------------------------------------------------ array helpers

\* Array.prototype.includes
includes(s, x) == \E i \in 1..Len(s) : s[i] = x

Range(s) == {s[i] : i \in 1..Len(s)}

\* the duplicate-free sequences over S of length at most n
DistinctSeqs(S, n) ==
    {s \in UNION {[1..k -> S] : k \in 0..n} :
        \A i, j \in 1..Len(s) : i # j => s[i] # s[j]}

\* Array.prototype.concat
concat(s, t) == s \o t

ResolveType == [BY_HAND |-> "BY_HAND", DEPENDENCE |-> "DEPENDENCE"]

VARIABLES
    girNames,           \* package names the documents of config.girDirectories mention
    girFiles,           \* package names that have a <name>.gir in config.girDirectories
    modules,            \* argument `modules` of getModules / getModulesResolved
    ignore,             \* argument `ignore`
    pc,                 \* position in the entry point
    foundGirModules,    \* findModules' result (a Set, in insertion order)
    girModules,         \* loadGirModules' shared accumulator `girModules`
    modDependencyMap,   \* this.modDependencyMap
    failedGirModules,   \* loadGirModules' shared accumulator `failedGirModules`
    stack,              \* activation records of loadGirModules, innermost last
    warnNoGir,          \* WARN_NO_GIR_FILE_FOUND_FOR_PACKAGE warnings, per name
    warnIgnore,         \* names of the "Ignore <mod>" warnings of findModules
    warnDepIgnored,     \* <<dependency, module>> of the "Load dependency ..." warnings
    call,               \* the entry point called and its doNotAskForVersionOnConflict
    girModulesGrouped,  \* the GirModulesGroupedMap handed to the resolver, in key order
    groupIdx,           \* position of `for (... of Object.values(girModulesGroupedMap))`
    keep,               \* the resolver's `keep` (a Set, in insertion order)
    resIgnore,          \* the resolver's local `ignore`
    versionAnswer,      \* askForVersionsPrompt's result for the current group
    wouldIgnoreDeps,    \* the reverse dependents found for the current answer
    goBacks,            \* 'Go back' answers given so far
    prompts,            \* number of inquirer prompts issued, per question
    configIgnore,       \* the ignore lists handed to Config.addToConfig so far
    error,              \* message of the Error thrown, if any
    returned,           \* what the entry point returned
    items,              \* SymTable.items, the static table of all SymTable instances
    warned,             \* the warnings logged by SymTable instances, oldest first
    symCall,            \* the last SymTable method call, with what it returned
    symCalls,           \* number of SymTable method calls so far
    written             \* history: the elements set has stored under each key, oldest first

loaderVars == <<foundGirModules, girModules, modDependencyMap, failedGirModules,
                stack, warnNoGir, warnIgnore, warnDepIgnored>>

resolverVars == <<girModulesGrouped, groupIdx, keep, resIgnore, versionAnswer,
                  wouldIgnoreDeps, goBacks, prompts, configIgnore, error>>

symVars == <<items, warned, symCall, symCalls, written>>

\* what the ModuleLoader never writes
inputVars == <<girNames, girFiles, modules, ignore, symVars>>

vars == <<girNames, girFiles, modules, ignore, pc, foundGirModules, girModules,
          modDependencyMap, failedGirModules, stack, warnNoGir, warnIgnore,
          warnDepIgnored, call, girModulesGrouped, groupIdx, keep, resIgnore,
          versionAnswer, wouldIgnoreDeps, goBacks, prompts, configIgnore, error,
          returned, items, warned, symCall, symCalls, written>>

\* what a SymTable never writes
moduleLoaderVars == <<girNames, girFiles, modules, ignore, pc, loaderVars, call,
                      resolverVars, returned>>

\* ------------------------------------------------------- pure loader helpers

\* glob(`${pattern}.gir`) over the gir directories, as package names
Glob(files, pattern) ==
    SelectSeq(WideOrder, LAMBDA n : n \in files /\ (pattern = Wildcard \/ pattern = n))

\* adding every element of `names` to a Set kept in insertion order
RECURSIVE SetAddAll(_, _)
SetAddAll(set, names) ==
    IF names = <<>> THEN set
    ELSE SetAddAll(IF includes(set, Head(names)) THEN set ELSE Append(set, Head(names)),
                   Tail(names))

\* findModules: the found names, ignored names filtered out
RECURSIVE findModules(_, _, _, _)
findModules(files, mods, ign, found) ==
    IF mods = <<>> THEN found
    ELSE LET globModules == SelectSeq(Glob(files, Head(mods)), LAMBDA m : ~includes(ign, m))
         IN  findModules(files, Tail(mods), ign, SetAddAll(found, globModules))

\* the "Ignore <mod>" warnings findModules emits
findModulesWarnings(files, mods, ign) ==
    {m \in WideNames :
        \E i \in 1..Len(mods) : includes(Glob(files, mods[i]), m) /\ includes(ign, m)}

\* findGirModuleByFullNames
findGirModuleByFullNames(mods, packageNames) ==
    SelectSeq(mods, LAMBDA m : includes(packageNames, m.packageName))

\* existsGirModules with `foundModule.length > 1`
existsGirModulesOffByOne(mods, packageNames) ==
    Len(findGirModuleByFullNames(mods, packageNames)) > 1

\* existsGirModules
existsGirModules(mods, packageNames) ==
    Len(findGirModuleByFullNames(mods, packageNames)) > 0

\* traverseDependencies: depth-first walk; `result` is the key list of the result object
RECURSIVE traverseDependencies(_, _, _), traverseDeps(_, _, _)
traverseDependencies(map, packageName, result) ==
    IF packageName \in DOMAIN map
    THEN traverseDeps(map, map[packageName], result)
    ELSE result

traverseDeps(map, deps, result) ==
    IF deps = <<>> THEN result
    ELSE IF includes(result, Head(deps))
         THEN traverseDeps(map, Tail(deps), result)
         ELSE traverseDeps(map, Tail(deps),
                           traverseDependencies(map, Head(deps), Append(result, Head(deps))))

\* setTraverseDependenciesForModules that keeps a closure once it is computed
setTraverseDependenciesOnce(mods, map) ==
    [i \in 1..Len(mods) |->
        IF mods[i].transitiveDependencies # <<>> THEN mods[i]
        ELSE [mods[i] EXCEPT !.transitiveDependencies =
                 traverseDependencies(map, mods[i].packageName, <<>>)]]

\* setTraverseDependenciesForModules that seeds the walk with the module itself
\* and leaves the seed out of the result
setTraverseDependenciesSeeded(mods, map) ==
    [i \in 1..Len(mods) |->
        [mods[i] EXCEPT !.transitiveDependencies =
            Tail(traverseDependencies(map, mods[i].packageName, <<mods[i].packageName>>))]]

\* setTraverseDependenciesForModules
setTraverseDependenciesForModules(mods, map) ==
    [i \in 1..Len(mods) |->
        [mods[i] EXCEPT !.transitiveDependencies =
            traverseDependencies(map, mods[i].packageName, <<>>)]]

\* GirModule.packageName of the document parsed from <fileName>.gir: the
\* "<Namespace>-<Version>" the document declares, which names the file
GirModulePackageName(fileName) == fileName

\* extendDependencyMapByGirModule
extendDependencyMapByGirModule(map, packageName, dependencies) ==
    [n \in DOMAIN map \cup {packageName} |->
        IF n = packageName THEN dependencies ELSE map[n]]

\* ------------------------------------------------------ pure resolver helpers

Null == "null"

\* union<T>(target, source) of utils: a Set in insertion order
union(target, source) == SetAddAll(target, source)

\* groupGirFiles with the namespace itself as the key
RECURSIVE groupGirFilesCaseSensitive(_, _, _)
groupGirFilesCaseSensitive(mods, idxs, grouped) ==
    IF idxs = <<>> THEN grouped
    ELSE LET namespace == splitModuleName(mods[Head(idxs)].packageName)
             id == namespace
             at == {g \in 1..Len(grouped) : grouped[g].id = id}
         IN  IF at = {}
             THEN groupGirFilesCaseSensitive(mods, Tail(idxs),
                      Append(grouped, [id |-> id, namespace |-> namespace,
                                       modules |-> <<Head(idxs)>>, hasConflict |-> FALSE]))
             ELSE LET g == CHOOSE x \in at : TRUE
                  IN  groupGirFilesCaseSensitive(mods, Tail(idxs),
                          [grouped EXCEPT ![g].modules = Append(@, Head(idxs)),
                                          ![g].hasConflict = TRUE])

\* groupGirFiles over the modules at positions `idxs` of `mods`
RECURSIVE groupGirFiles(_, _, _)
groupGirFiles(mods, idxs, grouped) ==
    IF idxs = <<>> THEN grouped
    ELSE LET namespace == splitModuleName(mods[Head(idxs)].packageName)
             id == toLowerCase(namespace)
             at == {g \in 1..Len(grouped) : grouped[g].id = id}
         IN  IF at = {}
             THEN groupGirFiles(mods, Tail(idxs),
                      Append(grouped, [id |-> id, namespace |-> namespace,
                                       modules |-> <<Head(idxs)>>, hasConflict |-> FALSE]))
             ELSE LET g == CHOOSE x \in at : TRUE
                  IN  groupGirFiles(mods, Tail(idxs),
                          [grouped EXCEPT ![g].modules = Append(@, Head(idxs)),
                                          ![g].hasConflict = TRUE])

Indices(mods) == [i \in 1..Len(mods) |-> i]

PackageNamesOf(mods, idxs) == [i \in 1..Len(idxs) |-> mods[idxs[i]].packageName]

\* generateModuleVersionQuestion(...).choices
generateModuleVersionQuestion(mods, group) ==
    <<"All">> \o PackageNamesOf(mods, group.modules)

\* askForVersionsPrompt with every choice unselected on 'All'
askForVersionsPromptAllUnselected(mods, group, selected) ==
    LET choices == generateModuleVersionQuestion(mods, group)
    IN  IF selected = "All"
        THEN [selected |-> SelectSeq(choices, LAMBDA c : c # "All"),
              unselected |-> SelectSeq(choices, LAMBDA c : c # "All")]
        ELSE [selected |-> <<selected>>,
              unselected |-> SelectSeq(choices, LAMBDA c : c # selected)]

\* askForVersionsPrompt, given the prompter's answer `selected` (not empty)
askForVersionsPrompt(mods, group, selected) ==
    LET choices == generateModuleVersionQuestion(mods, group)
    IN  IF selected = "All"
        THEN [selected |-> SelectSeq(choices, LAMBDA c : c # "All"), unselected |-> <<>>]
        ELSE [selected |-> <<selected>>,
              unselected |-> SelectSeq(choices, LAMBDA c : c # selected)]

\* the modules of every group, in map order
RECURSIVE AllGroupModules(_)
AllGroupModules(grouped) ==
    IF grouped = <<>> THEN <<>>
    ELSE Head(grouped).modules \o AllGroupModules(Tail(grouped))

\* findModulesDependOnPackage without the `continue` on the package's own module
findModulesDependOnPackageOwnToo(mods, grouped, packageName) ==
    SelectSeq(AllGroupModules(grouped),
              LAMBDA m : includes(mods[m].dependencies, packageName))

\* findModulesDependOnPackage
findModulesDependOnPackage(mods, grouped, packageName) ==
    SelectSeq(AllGroupModules(grouped),
              LAMBDA m : /\ mods[m].packageName # packageName
                         /\ includes(mods[m].dependencies, packageName))

\* findModulesDependOnPackages
RECURSIVE findModulesDependOnPackages(_, _, _)
findModulesDependOnPackages(mods, grouped, packageNames) ==
    IF packageNames = <<>> THEN <<>>
    ELSE concat(findModulesDependOnPackage(mods, grouped, Head(packageNames)),
                findModulesDependOnPackages(mods, grouped, Tail(packageNames)))

\* sortVersionsByAnswer that ignores no member of the group
sortVersionsByAnswerIgnoreNone(mods, group, selected) ==
    IF ~group.hasConflict
    THEN [keep |-> <<group.modules[1]>>, ignore |-> <<>>]
    ELSE LET keepModules == SelectSeq(group.modules,
                                LAMBDA m : includes(selected, mods[m].packageName))
         IN  IF Len(keepModules) <= 0
             THEN [keep |-> Null, ignore |-> <<>>]
             ELSE [keep |-> keepModules, ignore |-> <<>>]

\* sortVersionsByAnswer that keeps nothing, instead of throwing, when no member
\* is selected
sortVersionsByAnswerNoThrow(mods, group, selected) ==
    IF ~group.hasConflict
    THEN [keep |-> <<group.modules[1]>>, ignore |-> <<>>]
    ELSE LET keepModules == SelectSeq(group.modules,
                                LAMBDA m : includes(selected, mods[m].packageName))
             girModulePackageNames == PackageNamesOf(mods, group.modules)
         IN  [keep |-> keepModules,
              ignore |-> SelectSeq(girModulePackageNames,
                                   LAMBDA n : ~includes(selected, n))]

\* sortVersionsByAnswer; keep = Null stands for `throw new Error('Module not found!')`
sortVersionsByAnswer(mods, group, selected) ==
    IF ~group.hasConflict
    THEN [keep |-> <<group.modules[1]>>, ignore |-> <<>>]
    ELSE LET keepModules == SelectSeq(group.modules,
                                LAMBDA m : includes(selected, mods[m].packageName))
             girModulePackageNames == PackageNamesOf(mods, group.modules)
         IN  IF Len(keepModules) <= 0
             THEN [keep |-> Null, ignore |-> <<>>]
             ELSE [keep |-> keepModules,
                   ignore |-> SelectSeq(girModulePackageNames,
                                        LAMBDA n : ~includes(selected, n))]

\* the choices of the question askIgnoreDepsPrompt asks
askIgnoreDepsChoices(deps) ==
    IF Len(deps) > 0 THEN <<"Yes", "No", "Go back">> ELSE <<"Yes", "Go back">>

\* ------------------------------------------------------------- the SymTable
\* Strings are sequences of tokens: '.', '-' and the maximal runs of other
\* characters.  Every prefix the code tests and every piece it joins ends or
\* starts at a '.' or a '-', so startsWith, includes('.'), split('.') and +
\* on tokens agree with the same operations on characters.

\* String.prototype.startsWith
startsWith(string, searchString) ==
    /\ Len(searchString) <= Len(string)
    /\ SubSeq(string, 1, Len(searchString)) = searchString

\* string.split('.')[0]
RECURSIVE splitFirst(_)
splitFirst(string) ==
    IF string = <<>> \/ Head(string) = "." THEN <<>>
    ELSE <<Head(string)>> \o splitFirst(Tail(string))

\* Array.prototype.find with the predicate of getKey; <<>> stands for undefined
RECURSIVE find(_, _)
find(dependencies, namespace) ==
    IF dependencies = <<>> THEN <<>>
    ELSE IF startsWith(Head(dependencies), namespace \o <<"-">>)
         THEN Head(dependencies)
         ELSE find(Tail(dependencies), namespace)

\* Array.prototype.find taken from the end of the array
RECURSIVE findLast(_, _)
findLast(dependencies, namespace) ==
    IF dependencies = <<>> THEN <<>>
    ELSE IF startsWith(dependencies[Len(dependencies)], namespace \o <<"-">>)
         THEN dependencies[Len(dependencies)]
         ELSE findLast(SubSeq(dependencies, 1, Len(dependencies) - 1), namespace)

\* the argument list of the warning; its text is made by messages.ts
WARN_NOT_FOUND_PACKAGE_NAME(namespace, implementation) ==
    [namespace |-> namespace, implementation |-> implementation]

\* getKey's `null`; every key getKey returns contains a '.'
NullKey == <<"null">>

\* getKey with the last matching dependency instead of the first
getKeyFindLast(self, dependencies, implementation) ==
    IF startsWith(implementation, self.modPackageName \o <<".">>)
    THEN [key |-> implementation, warn |-> <<>>]
    ELSE IF startsWith(implementation, self.modNamespace \o <<".">>)
    THEN [key |-> self.modPackageName \o <<".">> \o implementation, warn |-> <<>>]
    ELSE IF ~includes(implementation, ".")
    THEN [key |-> self.modPackageName \o <<".">> \o self.modNamespace \o <<".">>
                      \o implementation,
          warn |-> <<>>]
    ELSE LET namespace == splitFirst(implementation)
             packageName == findLast(dependencies, namespace)
         IN  IF packageName = <<>>
             THEN [key |-> NullKey,
                   warn |-> <<WARN_NOT_FOUND_PACKAGE_NAME(namespace, implementation)>>]
             ELSE [key |-> packageName \o <<".">> \o implementation, warn |-> <<>>]

\* getKey that returns the reference itself where no dependency matches
getKeyFallback(self, dependencies, implementation) ==
    IF startsWith(implementation, self.modPackageName \o <<".">>)
    THEN [key |-> implementation, warn |-> <<>>]
    ELSE IF startsWith(implementation, self.modNamespace \o <<".">>)
    THEN [key |-> self.modPackageName \o <<".">> \o implementation, warn |-> <<>>]
    ELSE IF ~includes(implementation, ".")
    THEN [key |-> self.modPackageName \o <<".">> \o self.modNamespace \o <<".">>
                      \o implementation,
          warn |-> <<>>]
    ELSE LET namespace == splitFirst(implementation)
             packageName == find(dependencies, namespace)
         IN  IF packageName = <<>>
             THEN [key |-> implementation,
                   warn |-> <<WARN_NOT_FOUND_PACKAGE_NAME(namespace, implementation)>>]
             ELSE [key |-> packageName \o <<".">> \o implementation, warn |-> <<>>]

\* getKey that leaves the namespace out of the key of a bare reference
getKeyBareNoNamespace(self, dependencies, implementation) ==
    IF startsWith(implementation, self.modPackageName \o <<".">>)
    THEN [key |-> implementation, warn |-> <<>>]
    ELSE IF startsWith(implementation, self.modNamespace \o <<".">>)
    THEN [key |-> self.modPackageName \o <<".">> \o implementation, warn |-> <<>>]
    ELSE IF ~includes(implementation, ".")
    THEN [key |-> self.modPackageName \o <<".">> \o implementation, warn |-> <<>>]
    ELSE LET namespace == splitFirst(implementation)
             packageName == find(dependencies, namespace)
         IN  IF packageName = <<>>
             THEN [key |-> NullKey,
                   warn |-> <<WARN_NOT_FOUND_PACKAGE_NAME(namespace, implementation)>>]
             ELSE [key |-> packageName \o <<".">> \o implementation, warn |-> <<>>]

\* SymTable.getKey of the instance `self`: the key returned and the warnings logged
getKey(self, dependencies, implementation) ==
    IF startsWith(implementation, self.modPackageName \o <<".">>)
    THEN [key |-> implementation, warn |-> <<>>]
    ELSE IF startsWith(implementation, self.modNamespace \o <<".">>)
    THEN [key |-> self.modPackageName \o <<".">> \o implementation, warn |-> <<>>]
    ELSE IF ~includes(implementation, ".")
    THEN [key |-> self.modPackageName \o <<".">> \o self.modNamespace \o <<".">>
                      \o implementation,
          warn |-> <<>>]
    ELSE LET namespace == splitFirst(implementation)
             packageName == find(dependencies, namespace)
         IN  IF packageName = <<>>
             THEN [key |-> NullKey,
                   warn |-> <<WARN_NOT_FOUND_PACKAGE_NAME(namespace, implementation)>>]
             ELSE [key |-> packageName \o <<".">> \o implementation, warn |-> <<>>]

\* the owners, dependency arrays, references and elements the callers of a
\* SymTable use
\* the package names found in `dependencies` arrays
SymPackageNames == {<<"Gtk", "-", "3", ".", "0">>, <<"Gtk", "-", "4", ".", "0">>}

SymTables ==
    {[modPackageName |-> <<"Gdk", "-", "3", ".", "0">>, modNamespace |-> <<"Gdk">>],
     [modPackageName |-> <<"Gtk", "-", "3", ".", "0">>, modNamespace |-> <<"Gtk">>],
     [modPackageName |-> <<"Gtk", "-", "4", ".", "0">>, modNamespace |-> <<"Gtk">>]}

SymDependencies == DistinctSeqs(SymPackageNames, MaxSymDeps)

SymReferences ==
    {<<"Window">>,
     <<"Gtk", ".", "Window">>,
     <<"Gdk", ".", "Window">>,
     <<"Foo", ".", "Bar">>,
     <<"Gtk", "-", "3", ".", "0", ".", "Gtk", ".", "Window">>,
     <<"Gtk", "-", "4", ".", "0", ".", "Gtk", ".", "Window">>}

GirElements == {"element1", "element2"}

\* SymTable.items[key] = GirElement leaving the element already stored, if any
setItemKeepFirst(table, key, GirElement) ==
    [k \in DOMAIN table \cup {key} |->
        IF k \in DOMAIN table THEN table[k] ELSE GirElement]

\* SymTable.items[key] = GirElement
setItem(table, key, GirElement) ==
    [k \in DOMAIN table \cup {key} |-> IF k = key THEN GirElement ELSE table[k]]

\* the keys getByHand is called with
SymKeys ==
    {<<"Gtk", "-", "3", ".", "0", ".", "Gtk", ".", "Window">>,
     <<"Gtk", "-", "4", ".", "0", ".", "Gtk", ".", "Window">>}

NoSymCall ==
    [method |-> "none", self |-> [modPackageName |-> <<>>, modNamespace |-> <<>>],
     dependencies |-> <<>>, implementation |-> <<>>, key |-> NullKey, result |-> "null"]

\* no SymTable method has been called
SymInitial ==
    /\ items = <<>>
    /\ warned = <<>>
    /\ symCall = NoSymCall
    /\ symCalls = 0
    /\ written = <<>>

\* ---------------------------------------------------------------- the run

\* dependency entries recorded so far
RECURSIVE SumLen(_, _)
SumLen(map, names) ==
    IF names = {} THEN 0
    ELSE LET n == CHOOSE x \in names : TRUE
         IN  Len(map[n]) + SumLen(map, names \ {n})

NumEdges(map) == SumLen(map, DOMAIN map)

\* dependency entries the documents of this run may declare, all together
EdgeBudget == IF girNames = PackageNames THEN MaxEdges ELSE MaxWideEdges

Top == stack[Len(stack)]

SetTop(frame) == [stack EXCEPT ![Len(stack)] = frame]

Frame(toRead, resolvedBy) ==
    [girToLoad |-> toRead, newModuleFound |-> FALSE, resolvedBy |-> resolvedBy,
     at |-> "drain", idx |-> 1]

NoPrompts == [version |-> 0, ignoreDeps |-> 0, continue |-> 0, addToIgnore |-> 0]

Init ==
    /\ girNames = PackageNames
    /\ girFiles \in SUBSET PackageNames
    /\ modules \in DistinctSeqs(Patterns, MaxRequested)
    /\ ignore \in DistinctSeqs(PackageNames, MaxIgnore)
    /\ pc = "findModules"
    /\ foundGirModules = <<>>
    /\ girModules = <<>>
    /\ modDependencyMap = <<>>
    /\ failedGirModules = {}
    /\ stack = <<>>
    /\ warnNoGir = [n \in PackageNames |-> 0]
    /\ warnIgnore = {}
    /\ warnDepIgnored = {}
    /\ call = Null
    /\ girModulesGrouped = <<>>
    /\ groupIdx = 0
    /\ keep = <<>>
    /\ resIgnore = <<>>
    /\ versionAnswer = Null
    /\ wouldIgnoreDeps = <<>>
    /\ goBacks = 0
    /\ prompts = NoPrompts
    /\ configIgnore = {}
    /\ error = Null
    /\ returned = Null
    /\ SymInitial

\* getModules / getModulesResolved up to the call of loadGirModules
FindModules ==
    /\ pc = "findModules"
    /\ foundGirModules' = findModules(girFiles, modules, ignore, <<>>)
    /\ warnIgnore' = findModulesWarnings(girFiles, modules, ignore)
    /\ stack' = <<Frame(foundGirModules', ResolveType.BY_HAND)>>
    /\ pc' = "loadGirModules"
    /\ UNCHANGED <<inputVars, girModules, modDependencyMap, failedGirModules,
                   warnNoGir, warnDepIgnored, call, resolverVars, returned>>

\* LoadSkip that reads girToLoad[0] and never shifts it
LoadSkipNoShift ==
    /\ pc = "loadGirModules" /\ Top.at = "drain" /\ Top.girToLoad # <<>>
    /\ existsGirModules(girModules, <<Head(Top.girToLoad)>>)
    /\ UNCHANGED vars

\* one turn of `while (girToLoad.length > 0)`: the name is already loaded
LoadSkip ==
    /\ pc = "loadGirModules" /\ Top.at = "drain" /\ Top.girToLoad # <<>>
    /\ existsGirModules(girModules, <<Head(Top.girToLoad)>>)
    /\ stack' = SetTop([Top EXCEPT !.girToLoad = Tail(@)])
    /\ UNCHANGED <<inputVars, pc, foundGirModules, girModules, modDependencyMap,
                   failedGirModules, warnNoGir, warnIgnore, warnDepIgnored, call,
                   resolverVars, returned>>

\* LoadFail without the `failedGirModules.has` test
LoadFailAlwaysWarn ==
    /\ pc = "loadGirModules" /\ Top.at = "drain" /\ Top.girToLoad # <<>>
    /\ LET packageName == Head(Top.girToLoad) IN
        /\ ~existsGirModules(girModules, <<packageName>>)
        /\ packageName \notin girFiles
        /\ warnNoGir' = [warnNoGir EXCEPT ![packageName] = @ + 1]
        /\ failedGirModules' = failedGirModules \cup {packageName}
    /\ stack' = SetTop([Top EXCEPT !.girToLoad = Tail(@)])
    /\ UNCHANGED <<inputVars, pc, foundGirModules, girModules, modDependencyMap,
                   warnIgnore, warnDepIgnored, call, resolverVars, returned>>

\* one turn of the while loop: loadAndCreateGirModule finds no file
LoadFail ==
    /\ pc = "loadGirModules" /\ Top.at = "drain" /\ Top.girToLoad # <<>>
    /\ LET packageName == Head(Top.girToLoad) IN
        /\ ~existsGirModules(girModules, <<packageName>>)
        /\ packageName \notin girFiles
        /\ IF packageName \notin failedGirModules
           THEN /\ warnNoGir' = [warnNoGir EXCEPT ![packageName] = @ + 1]
                /\ failedGirModules' = failedGirModules \cup {packageName}
           ELSE UNCHANGED <<warnNoGir, failedGirModules>>
    /\ stack' = SetTop([Top EXCEPT !.girToLoad = Tail(@)])
    /\ UNCHANGED <<inputVars, pc, foundGirModules, girModules, modDependencyMap,
                   warnIgnore, warnDepIgnored, call, resolverVars, returned>>

\* one turn of the while loop: the document is parsed and the module appended
LoadModule ==
    /\ pc = "loadGirModules" /\ Top.at = "drain" /\ Top.girToLoad # <<>>
    /\ LET packageName == Head(Top.girToLoad) IN
        /\ ~existsGirModules(girModules, <<packageName>>)
        /\ packageName \in girFiles
        /\ \E dependencies \in DistinctSeqs(girNames,
                                              EdgeBudget - NumEdges(modDependencyMap)) :
            /\ modDependencyMap' =
                   extendDependencyMapByGirModule(modDependencyMap,
                       GirModulePackageName(packageName), dependencies)
            /\ girModules' = Append(girModules,
                   [packageName |-> GirModulePackageName(packageName),
                    dependencies |-> dependencies,
                    transitiveDependencies |-> <<>>, resolvedBy |-> Top.resolvedBy])
    /\ stack' = SetTop([Top EXCEPT !.girToLoad = Tail(@), !.newModuleFound = TRUE])
    /\ UNCHANGED <<inputVars, pc, foundGirModules, failedGirModules, warnNoGir,
                   warnIgnore, warnDepIgnored, call, resolverVars, returned>>

\* `return` of one activation: the caller resumes, or the entry point does
Return ==
    /\ stack' = SubSeq(stack, 1, Len(stack) - 1)
    /\ pc' = IF Len(stack) = 1 THEN "loaded" ELSE pc

\* the queue is drained and no new module was found: return
ReturnNothingNew ==
    /\ pc = "loadGirModules" /\ Top.at = "drain" /\ Top.girToLoad = <<>>
    /\ ~Top.newModuleFound
    /\ Return
    /\ UNCHANGED <<inputVars, foundGirModules, girModules, modDependencyMap,
                   failedGirModules, warnNoGir, warnIgnore, warnDepIgnored, call,
                   resolverVars, returned>>

\* the queue is drained and a module was found: recompute every closure
SetTraverse ==
    /\ pc = "loadGirModules" /\ Top.at = "drain" /\ Top.girToLoad = <<>>
    /\ Top.newModuleFound
    /\ girModules' = setTraverseDependenciesForModules(girModules, modDependencyMap)
    /\ stack' = SetTop([Top EXCEPT !.at = "loop", !.idx = 1])
    /\ UNCHANGED <<inputVars, pc, foundGirModules, modDependencyMap,
                   failedGirModules, warnNoGir, warnIgnore, warnDepIgnored, call,
                   resolverVars, returned>>

\* one turn of `for (const girModule of girModules)`: no transitive dependency
LoopSkip ==
    /\ pc = "loadGirModules" /\ Top.at = "loop" /\ Top.idx <= Len(girModules)
    /\ girModules[Top.idx].transitiveDependencies = <<>>
    /\ stack' = SetTop([Top EXCEPT !.idx = @ + 1])
    /\ UNCHANGED <<inputVars, pc, foundGirModules, girModules, modDependencyMap,
                   failedGirModules, warnNoGir, warnIgnore, warnDepIgnored, call,
                   resolverVars, returned>>

\* LoopRecurse without the recursive call
LoopNoRecurse ==
    /\ pc = "loadGirModules" /\ Top.at = "loop" /\ Top.idx <= Len(girModules)
    /\ girModules[Top.idx].transitiveDependencies # <<>>
    /\ stack' = SetTop([Top EXCEPT !.idx = @ + 1])
    /\ UNCHANGED <<inputVars, pc, foundGirModules, girModules, modDependencyMap,
                   failedGirModules, warnNoGir, warnIgnore, warnDepIgnored, call,
                   resolverVars, returned>>

\* LoopRecurse that leaves the ignored names out of the recursive call
LoopRecurseSkipIgnored ==
    /\ pc = "loadGirModules" /\ Top.at = "loop" /\ Top.idx <= Len(girModules)
    /\ LET girModule == girModules[Top.idx]
           transitiveDependencies == girModule.transitiveDependencies
       IN /\ transitiveDependencies # <<>>
          /\ warnDepIgnored' = warnDepIgnored \cup
                 {<<d, girModule.packageName>> :
                     d \in {x \in Range(transitiveDependencies) : includes(ignore, x)}}
          /\ stack' = Append(SetTop([Top EXCEPT !.idx = @ + 1]),
                             Frame(SelectSeq(transitiveDependencies,
                                             LAMBDA d : ~includes(ignore, d)),
                                   ResolveType.DEPENDENCE))
    /\ UNCHANGED <<inputVars, pc, foundGirModules, girModules, modDependencyMap,
                   failedGirModules, warnNoGir, warnIgnore, call, resolverVars,
                   returned>>

\* LoopRecurse whose recursive call keeps the default resolvedBy
LoopRecurseByHand ==
    /\ pc = "loadGirModules" /\ Top.at = "loop" /\ Top.idx <= Len(girModules)
    /\ LET girModule == girModules[Top.idx]
           transitiveDependencies == girModule.transitiveDependencies
       IN /\ transitiveDependencies # <<>>
          /\ warnDepIgnored' = warnDepIgnored \cup
                 {<<d, girModule.packageName>> :
                     d \in {x \in Range(transitiveDependencies) : includes(ignore, x)}}
          /\ stack' = Append(SetTop([Top EXCEPT !.idx = @ + 1]),
                             Frame(transitiveDependencies, ResolveType.BY_HAND))
    /\ UNCHANGED <<inputVars, pc, foundGirModules, girModules, modDependencyMap,
                   failedGirModules, warnNoGir, warnIgnore, call, resolverVars,
                   returned>>

\* one turn of the for loop: warn about ignored dependencies, then recurse
LoopRecurse ==
    /\ pc = "loadGirModules" /\ Top.at = "loop" /\ Top.idx <= Len(girModules)
    /\ LET girModule == girModules[Top.idx]
           transitiveDependencies == girModule.transitiveDependencies
       IN /\ transitiveDependencies # <<>>
          /\ warnDepIgnored' = warnDepIgnored \cup
                 {<<d, girModule.packageName>> :
                     d \in {x \in Range(transitiveDependencies) : includes(ignore, x)}}
          /\ stack' = Append(SetTop([Top EXCEPT !.idx = @ + 1]),
                             Frame(transitiveDependencies, ResolveType.DEPENDENCE))
    /\ UNCHANGED <<inputVars, pc, foundGirModules, girModules, modDependencyMap,
                   failedGirModules, warnNoGir, warnIgnore, call, resolverVars,
                   returned>>

\* the for loop is over: return
ReturnLoaded ==
    /\ pc = "loadGirModules" /\ Top.at = "loop" /\ Top.idx > Len(girModules)
    /\ Return
    /\ UNCHANGED <<inputVars, foundGirModules, girModules, modDependencyMap,
                   failedGirModules, warnNoGir, warnIgnore, warnDepIgnored, call,
                   resolverVars, returned>>

\* getModules after loadGirModules returned
GetModules ==
    /\ pc = "loaded"
    /\ call' = [entry |-> "getModules", doNotAskForVersionOnConflict |-> TRUE]
    /\ returned' = [grouped |-> groupGirFiles(girModules, Indices(girModules), <<>>),
                  loaded |-> Indices(girModules), failed |-> failedGirModules]
    /\ pc' = "done"
    /\ UNCHANGED <<inputVars, loaderVars, resolverVars>>

\* GetModulesResolvedKeepAll that keeps the first module of each namespace only
GetModulesResolvedKeepFirst ==
    /\ pc = "loaded"
    /\ call' = [entry |-> "getModulesResolved", doNotAskForVersionOnConflict |-> TRUE]
    /\ keep' = SelectSeq(Indices(girModules),
                         LAMBDA m : \A k \in 1..(m - 1) :
                             toLowerCase(splitModuleName(girModules[k].packageName))
                                 # toLowerCase(splitModuleName(girModules[m].packageName)))
    /\ returned' = [keep |-> keep', grouped |-> groupGirFiles(girModules, keep', <<>>),
                    ignore |-> ignore, failed |-> failedGirModules]
    /\ pc' = "done"
    /\ UNCHANGED <<inputVars, loaderVars, girModulesGrouped, groupIdx, resIgnore,
                   versionAnswer, wouldIgnoreDeps, goBacks, prompts, configIgnore,
                   error>>

\* getModulesResolved after loadGirModules returned, conflict prompting skipped
GetModulesResolvedKeepAll ==
    /\ pc = "loaded"
    /\ call' = [entry |-> "getModulesResolved", doNotAskForVersionOnConflict |-> TRUE]
    /\ keep' = Indices(girModules)
    /\ returned' = [keep |-> keep', grouped |-> groupGirFiles(girModules, keep', <<>>),
                  ignore |-> ignore, failed |-> failedGirModules]
    /\ pc' = "done"
    /\ UNCHANGED <<inputVars, loaderVars, girModulesGrouped, groupIdx, resIgnore,
                   versionAnswer, wouldIgnoreDeps, goBacks, prompts, configIgnore,
                   error>>

\* getModulesResolved after loadGirModules returned, up to the resolver's first group
GetModulesResolvedAsk ==
    /\ pc = "loaded"
    /\ call' = [entry |-> "getModulesResolved", doNotAskForVersionOnConflict |-> FALSE]
    /\ girModulesGrouped' = groupGirFiles(girModules, Indices(girModules), <<>>)
    /\ resIgnore' = ignore
    /\ keep' = <<>>
    /\ groupIdx' = 1
    /\ pc' = "forEachGroup"
    /\ UNCHANGED <<inputVars, loaderVars, versionAnswer, wouldIgnoreDeps, goBacks,
                   prompts, configIgnore, error, returned>>

\* FilteredGroup with `modules.length >= 1` as the conflict test
FilteredGroupOffByOne ==
    LET group == girModulesGrouped[groupIdx]
        mods == SelectSeq(group.modules,
                          LAMBDA m : ~includes(resIgnore, girModules[m].packageName))
    IN  [group EXCEPT !.modules = mods, !.hasConflict = Len(mods) >= 1]

\* the current group with the ignored modules removed
FilteredGroup ==
    LET group == girModulesGrouped[groupIdx]
        mods == SelectSeq(group.modules,
                          LAMBDA m : ~includes(resIgnore, girModules[m].packageName))
    IN  [group EXCEPT !.modules = mods, !.hasConflict = Len(mods) >= 2]

\* one turn of the resolver's for loop: every module of the group is ignored
GroupEmpty ==
    /\ pc = "forEachGroup" /\ groupIdx <= Len(girModulesGrouped)
    /\ Len(FilteredGroup.modules) <= 0
    /\ girModulesGrouped' = [girModulesGrouped EXCEPT ![groupIdx] = FilteredGroup]
    /\ groupIdx' = groupIdx + 1
    /\ UNCHANGED <<inputVars, loaderVars, pc, call, keep, resIgnore, versionAnswer,
                   wouldIgnoreDeps, goBacks, prompts, configIgnore, error, returned>>

\* one turn of the resolver's for loop: a group without conflict is kept
GroupKeep ==
    /\ pc = "forEachGroup" /\ groupIdx <= Len(girModulesGrouped)
    /\ Len(FilteredGroup.modules) > 0 /\ ~FilteredGroup.hasConflict
    /\ girModulesGrouped' = [girModulesGrouped EXCEPT ![groupIdx] = FilteredGroup]
    /\ keep' = union(keep, FilteredGroup.modules)
    /\ groupIdx' = groupIdx + 1
    /\ UNCHANGED <<inputVars, loaderVars, pc, call, resIgnore, versionAnswer,
                   wouldIgnoreDeps, goBacks, prompts, configIgnore, error, returned>>

\* one turn of the resolver's for loop: a conflicted group enters `while (goBack)`
GroupConflict ==
    /\ pc = "forEachGroup" /\ groupIdx <= Len(girModulesGrouped)
    /\ FilteredGroup.hasConflict
    /\ girModulesGrouped' = [girModulesGrouped EXCEPT ![groupIdx] = FilteredGroup]
    /\ versionAnswer' = Null
    /\ wouldIgnoreDeps' = <<>>
    /\ pc' = "askForVersions"
    /\ UNCHANGED <<inputVars, loaderVars, call, groupIdx, keep, resIgnore, goBacks,
                   prompts, configIgnore, error, returned>>

\* what the prompter can answer to the version question: a choice, nothing, or
\* a string that is no choice
VersionAnswers(group) ==
    Range(generateModuleVersionQuestion(girModules, group)) \cup {"", "Other-1.0"}

\* askForVersionsPrompt and the search for reverse dependents, up to the next prompt
AskForVersions ==
    /\ pc = "askForVersions"
    /\ \E selected \in VersionAnswers(girModulesGrouped[groupIdx]) :
        /\ prompts' = [prompts EXCEPT !.version = @ + 1]
        /\ IF selected = ""
           THEN /\ error' = "No valid answer!"
                /\ pc' = "aborted"
                /\ UNCHANGED <<versionAnswer, wouldIgnoreDeps>>
           ELSE /\ versionAnswer' =
                       askForVersionsPrompt(girModules, girModulesGrouped[groupIdx], selected)
                /\ wouldIgnoreDeps' =
                       SelectSeq(findModulesDependOnPackages(girModules, girModulesGrouped,
                                                             versionAnswer'.unselected),
                                 LAMBDA m : ~includes(resIgnore, girModules[m].packageName))
                /\ pc' = "askIgnoreDeps"
                /\ UNCHANGED error
    /\ UNCHANGED <<inputVars, loaderVars, call, girModulesGrouped, groupIdx, keep,
                   resIgnore, goBacks, configIgnore, returned>>

PromptIgnoreDeps ==
    IF Len(wouldIgnoreDeps) > 0
    THEN [prompts EXCEPT !.ignoreDeps = @ + 1]
    ELSE [prompts EXCEPT !.continue = @ + 1]

\* AskIgnoreDepsGoBack with the cascade applied before going back
AskIgnoreDepsGoBackAfterCascade ==
    /\ pc = "askIgnoreDeps"
    /\ goBacks < MaxGoBack
    /\ goBacks' = goBacks + 1
    /\ prompts' = PromptIgnoreDeps
    /\ resIgnore' = concat(resIgnore, PackageNamesOf(girModules, wouldIgnoreDeps))
    /\ pc' = "askForVersions"
    /\ UNCHANGED <<inputVars, loaderVars, call, girModulesGrouped, groupIdx, keep,
                   versionAnswer, wouldIgnoreDeps, configIgnore, error, returned>>

\* askIgnoreDepsPrompt answered 'Go back': the version question is asked again
AskIgnoreDepsGoBack ==
    /\ pc = "askIgnoreDeps"
    /\ goBacks < MaxGoBack
    /\ goBacks' = goBacks + 1
    /\ prompts' = PromptIgnoreDeps
    /\ pc' = "askForVersions"
    /\ UNCHANGED <<inputVars, loaderVars, call, girModulesGrouped, groupIdx, keep,
                   resIgnore, versionAnswer, wouldIgnoreDeps, configIgnore, error,
                   returned>>

\* askIgnoreDepsPrompt answered `ignoreDepsAnswer`, not 'Go back': the selection
\* is applied
AskIgnoreDepsAnswered(ignoreDepsAnswer) ==
    /\ pc = "askIgnoreDeps"
    /\ LET ignore1 == IF ignoreDepsAnswer = "Yes"
                      THEN concat(resIgnore, PackageNamesOf(girModules, wouldIgnoreDeps))
                      ELSE resIgnore
           unionMe == sortVersionsByAnswer(girModules, girModulesGrouped[groupIdx],
                                           versionAnswer.selected)
       IN  /\ prompts' = PromptIgnoreDeps
           /\ IF unionMe.keep = Null
              THEN /\ error' = "Module not found!"
                   /\ pc' = "aborted"
                   /\ resIgnore' = ignore1
                   /\ UNCHANGED <<keep, groupIdx>>
              ELSE /\ keep' = union(keep, unionMe.keep)
                   /\ resIgnore' = concat(ignore1, unionMe.ignore)
                   /\ groupIdx' = groupIdx + 1
                   /\ pc' = "forEachGroup"
                   /\ UNCHANGED error
    /\ UNCHANGED <<inputVars, loaderVars, call, girModulesGrouped, versionAnswer,
                   wouldIgnoreDeps, goBacks, configIgnore, returned>>

\* what the prompter can answer to the cascade or continue question, 'Go back'
\* apart: a choice, or nothing
IgnoreDepsAnswers == (Range(askIgnoreDepsChoices(wouldIgnoreDeps)) \ {"Go back"}) \cup {""}

AskIgnoreDepsCommit ==
    \E ignoreDepsAnswer \in IgnoreDepsAnswers : AskIgnoreDepsAnswered(ignoreDepsAnswer)

\* ResolvedResult whose `grouped` is the grouping of every loaded module
ResolvedResultGroupsLoaded ==
    [keep |-> keep, grouped |-> groupGirFiles(girModules, Indices(girModules), <<>>),
     ignore |-> ignore, failed |-> failedGirModules]

\* getModulesResolved's return once the resolver has returned
ResolvedResult ==
    [keep |-> keep, grouped |-> groupGirFiles(girModules, keep, <<>>),
     ignore |-> ignore, failed |-> failedGirModules]

\* the for loop is over and nothing is ignored: the resolver and the entry point return
ResolveReturn ==
    /\ pc = "forEachGroup" /\ groupIdx > Len(girModulesGrouped)
    /\ ~(Len(resIgnore) > 0)
    /\ returned' = ResolvedResult
    /\ pc' = "done"
    /\ UNCHANGED <<inputVars, loaderVars, call, resolverVars>>

\* the for loop is over and something is ignored: the list is logged
ResolveReport ==
    /\ pc = "forEachGroup" /\ groupIdx > Len(girModulesGrouped)
    /\ Len(resIgnore) > 0
    /\ pc' = "askAddToIgnore"
    /\ UNCHANGED <<inputVars, loaderVars, call, resolverVars, returned>>

\* AskAddToIgnoreToConfig that hands the caller's ignore list to the config store
AskAddToIgnoreToConfigCallerList ==
    /\ pc = "askAddToIgnore"
    /\ \E addToIgnore \in {"No", "Yes"} :
        configIgnore' = IF addToIgnore = "Yes"
                        THEN configIgnore \cup {ignore} ELSE configIgnore
    /\ prompts' = [prompts EXCEPT !.addToIgnore = @ + 1]
    /\ returned' = ResolvedResult
    /\ pc' = "done"
    /\ UNCHANGED <<inputVars, loaderVars, call, girModulesGrouped, groupIdx, keep,
                   resIgnore, versionAnswer, wouldIgnoreDeps, goBacks, error>>

\* askAddToIgnoreToConfigPrompt, then the resolver and the entry point return
AskAddToIgnoreToConfig ==
    /\ pc = "askAddToIgnore"
    /\ \E addToIgnore \in {"No", "Yes"} :
        configIgnore' = IF addToIgnore = "Yes"
                        THEN configIgnore \cup {resIgnore} ELSE configIgnore
    /\ prompts' = [prompts EXCEPT !.addToIgnore = @ + 1]
    /\ returned' = ResolvedResult
    /\ pc' = "done"
    /\ UNCHANGED <<inputVars, loaderVars, call, girModulesGrouped, groupIdx, keep,
                   resIgnore, versionAnswer, wouldIgnoreDeps, goBacks, error>>

Next ==
    \/ FindModules
    \/ LoadSkip
    \/ LoadFail
    \/ LoadModule
    \/ ReturnNothingNew
    \/ SetTraverse
    \/ LoopSkip
    \/ LoopRecurse
    \/ ReturnLoaded
    \/ GetModules
    \/ GetModulesResolvedKeepAll
    \/ GetModulesResolvedAsk
    \/ GroupEmpty
    \/ GroupKeep
    \/ GroupConflict
    \/ AskForVersions
    \/ AskIgnoreDepsGoBack
    \/ AskIgnoreDepsCommit
    \/ ResolveReturn
    \/ ResolveReport
    \/ AskAddToIgnoreToConfig

Spec == Init /\ [][Next]_vars

\* An entry point called with the pattern '*' on the wide directory.
WideInit ==
    /\ girNames = WideNames
    /\ girFiles \in SUBSET WideNames
    /\ modules = <<Wildcard>>
    /\ ignore \in DistinctSeqs(WideNames, MaxIgnore)
    /\ pc = "findModules"
    /\ foundGirModules = <<>>
    /\ girModules = <<>>
    /\ modDependencyMap = <<>>
    /\ failedGirModules = {}
    /\ stack = <<>>
    /\ warnNoGir = [n \in WideNames |-> 0]
    /\ warnIgnore = {}
    /\ warnDepIgnored = {}
    /\ call = Null
    /\ girModulesGrouped = <<>>
    /\ groupIdx = 0
    /\ keep = <<>>
    /\ resIgnore = <<>>
    /\ versionAnswer = Null
    /\ wouldIgnoreDeps = <<>>
    /\ goBacks = 0
    /\ prompts = NoPrompts
    /\ configIgnore = {}
    /\ error = Null
    /\ returned = Null
    /\ SymInitial

WideSpec == WideInit /\ [][Next]_vars

\* loadGirModules alone, from the call of an entry point to its return
LoaderNext ==
    \/ FindModules
    \/ LoadSkip
    \/ LoadFail
    \/ LoadModule
    \/ ReturnNothingNew
    \/ SetTraverse
    \/ LoopSkip
    \/ LoopRecurse
    \/ ReturnLoaded

\* The loader is one thread of control whose only suspensions are file reads,
\* which complete: a step that can be taken is taken.
LoaderSpec == Init /\ [][LoaderNext]_vars /\ WF_vars(LoaderNext)

\* ------------------------------------------------- the SymTable's methods

\* the references and dependency arrays of two runs that generate for the same
\* modules, interleaved in one process
RunReferences == {<<"Window">>, <<"Gtk", ".", "Window">>}

RunDependencies == {<<>>, <<<<"Gtk", "-", "3", ".", "0">>>>}

\* the arguments and the number of the method calls of the process
References == IF pc = "symRuns" THEN RunReferences ELSE SymReferences

Dependencies == IF pc = "symRuns" THEN RunDependencies ELSE SymDependencies

CallBudget == IF pc = "symRuns" THEN MaxSymCalls + 1 ELSE MaxSymCalls

SymTableCalled == pc \in {"symTable", "symRuns"} /\ symCalls < CallBudget

\* a process in which only SymTable methods are called
SymInit ==
    /\ girNames = PackageNames
    /\ girFiles = {}
    /\ modules = <<>>
    /\ ignore = <<>>
    /\ pc = "symTable"
    /\ foundGirModules = <<>>
    /\ girModules = <<>>
    /\ modDependencyMap = <<>>
    /\ failedGirModules = {}
    /\ stack = <<>>
    /\ warnNoGir = [n \in PackageNames |-> 0]
    /\ warnIgnore = {}
    /\ warnDepIgnored = {}
    /\ call = Null
    /\ girModulesGrouped = <<>>
    /\ groupIdx = 0
    /\ keep = <<>>
    /\ resIgnore = <<>>
    /\ versionAnswer = Null
    /\ wouldIgnoreDeps = <<>>
    /\ goBacks = 0
    /\ prompts = NoPrompts
    /\ configIgnore = {}
    /\ error = Null
    /\ returned = Null
    /\ SymInitial

\* a process in which two runs call the SymTables of the same modules
SymRunsInit ==
    /\ girNames = PackageNames
    /\ girFiles = {}
    /\ modules = <<>>
    /\ ignore = <<>>
    /\ pc = "symRuns"
    /\ foundGirModules = <<>>
    /\ girModules = <<>>
    /\ modDependencyMap = <<>>
    /\ failedGirModules = {}
    /\ stack = <<>>
    /\ warnNoGir = [n \in PackageNames |-> 0]
    /\ warnIgnore = {}
    /\ warnDepIgnored = {}
    /\ call = Null
    /\ girModulesGrouped = <<>>
    /\ groupIdx = 0
    /\ keep = <<>>
    /\ resIgnore = <<>>
    /\ versionAnswer = Null
    /\ wouldIgnoreDeps = <<>>
    /\ goBacks = 0
    /\ prompts = NoPrompts
    /\ configIgnore = {}
    /\ error = Null
    /\ returned = Null
    /\ SymInitial

\* symTable.getKey(dependencies, implementation) on the instance `self`
GetKey ==
    /\ SymTableCalled
    /\ \E self \in SymTables, dependencies \in Dependencies,
          implementation \in References :
        LET got == getKey(self, dependencies, implementation)
        IN  /\ warned' = warned \o got.warn
            /\ symCall' = [method |-> "getKey", self |-> self,
                           dependencies |-> dependencies,
                           implementation |-> implementation,
                           key |-> got.key, result |-> "null"]
    /\ symCalls' = symCalls + 1
    /\ UNCHANGED <<moduleLoaderVars, items, written>>

\* symTable.get(dependencies, fullTypeName) on the instance `self`
Get ==
    /\ SymTableCalled
    /\ \E self \in SymTables, dependencies \in Dependencies,
          fullTypeName \in References :
        LET got == getKey(self, dependencies, fullTypeName)
        IN  /\ warned' = warned \o got.warn
            /\ symCall' = [method |-> "get", self |-> self,
                           dependencies |-> dependencies,
                           implementation |-> fullTypeName,
                           key |-> got.key,
                           result |-> IF got.key = NullKey \/ got.key \notin DOMAIN items
                                      THEN "null"
                                      ELSE items[got.key]]
    /\ symCalls' = symCalls + 1
    /\ UNCHANGED <<moduleLoaderVars, items, written>>

\* symTable.set(dependencies, fullTypeName, GirElement) on the instance `self`
Set ==
    /\ SymTableCalled
    /\ \E self \in SymTables, dependencies \in Dependencies,
          fullTypeName \in References, GirElement \in GirElements :
        LET got == getKey(self, dependencies, fullTypeName)
        IN  /\ warned' = warned \o got.warn
            /\ items' = IF got.key # NullKey
                        THEN setItem(items, got.key, GirElement)
                        ELSE items
            /\ written' = IF got.key # NullKey
                          THEN [k \in DOMAIN written \cup {got.key} |->
                                   IF k = got.key
                                   THEN Append(IF k \in DOMAIN written THEN written[k]
                                               ELSE <<>>, GirElement)
                                   ELSE written[k]]
                          ELSE written
            /\ symCall' = [method |-> "set", self |-> self,
                           dependencies |-> dependencies,
                           implementation |-> fullTypeName,
                           key |-> got.key, result |-> "null"]
    /\ symCalls' = symCalls + 1
    /\ UNCHANGED moduleLoaderVars

\* symTable.getByHand(key) on the instance `self`
GetByHand ==
    /\ SymTableCalled
    /\ \E self \in SymTables, key \in SymKeys :
        symCall' = [method |-> "getByHand", self |-> self, dependencies |-> <<>>,
                    implementation |-> <<>>, key |-> key,
                    result |-> IF key \in DOMAIN items THEN items[key] ELSE "null"]
    /\ symCalls' = symCalls + 1
    /\ UNCHANGED <<moduleLoaderVars, items, warned, written>>

SymNext ==
    \/ GetKey
    \/ Get
    \/ Set
    \/ GetByHand

SymSpec == SymInit /\ [][SymNext]_vars

SymRunsSpec == SymRunsInit /\ [][SymNext]_vars

\* ------------------------------------------------------------------ claims

\* the top-level loadGirModules call returns {loaded, failed}
LoadReturned == pc = "loaded"

LoadedNames == {girModules[i].packageName : i \in 1..Len(girModules)}

\* the successors of a name in a dependency map
Succ(map, n) == IF n \in DOMAIN map THEN Range(map[n]) ELSE {}

\* the names reachable from the names of S by zero or more edges
RECURSIVE Reach(_, _)
Reach(map, S) ==
    LET T == S \cup UNION {Succ(map, n) : n \in S}
    IN  IF T = S THEN S ELSE Reach(map, T)

\* the names reachable from n by one or more edges
Reachable(map, n) == Reach(map, Succ(map, n))

NoDuplicates(s) == \A i, j \in 1..Len(s) : i # j => s[i] # s[j]

\* C1: whatever the documents and their dependencies (self-dependencies, cycles,
\* dependencies without a document), loadGirModules eventually returns
\* {loaded, failed}.
C1_Terminates == <>(pc = "loaded" /\ stack = <<>>)

\* loadGirModules has returned from a graph with a two-module cycle
C1_Witness ==
    /\ pc = "loaded"
    /\ \E a, b \in DOMAIN modDependencyMap :
        a # b /\ includes(modDependencyMap[a], b) /\ includes(modDependencyMap[b], a)

\* C2: when the top-level call has returned, every requested name and every
\* transitive dependency of every loaded module is loaded or failed.
C2_ClosedUnderDependencies ==
    LoadReturned =>
        /\ Range(foundGirModules) \subseteq LoadedNames \cup failedGirModules
        /\ \A i \in 1..Len(girModules) :
            Range(girModules[i].transitiveDependencies)
                \subseteq LoadedNames \cup failedGirModules

\* a returned load in which a module has a loaded and a failed transitive dependency
C2_Witness ==
    /\ pc = "loaded"
    /\ \E i \in 1..Len(girModules) :
        /\ Range(girModules[i].transitiveDependencies) \cap failedGirModules # {}
        /\ Range(girModules[i].transitiveDependencies) \cap LoadedNames # {}

\* C3: when the top-level call has returned, each module's transitiveDependencies
\* lists, each once, exactly the names reachable from it by one or more edges of
\* the final dependency map; so its own name is listed iff it lies on a cycle.
C3_TransitiveClosure ==
    LoadReturned =>
        \A i \in 1..Len(girModules) :
            LET M == girModules[i] IN
            /\ NoDuplicates(M.transitiveDependencies)
            /\ Range(M.transitiveDependencies) = Reachable(modDependencyMap, M.packageName)
            /\ includes(M.transitiveDependencies, M.packageName)
                   <=> \E n \in Succ(modDependencyMap, M.packageName) :
                           M.packageName \in Reach(modDependencyMap, {n})

\* a returned load in which a module's closure is larger than its own dependency
\* list, so it was completed from documents loaded after the module itself
C3_Witness ==
    /\ pc = "loaded"
    /\ \E i \in 1..Len(girModules) :
        /\ Len(girModules[i].transitiveDependencies) > Len(girModules[i].dependencies)
        /\ ~includes(girModules[i].transitiveDependencies, girModules[i].packageName)

\* exactly A and B are loaded, with the edges A->B and B->A and no other
TwoCycle(A, B) ==
    /\ A # B
    /\ LoadReturned
    /\ LoadedNames = {A, B}
    /\ DOMAIN modDependencyMap = {A, B}
    /\ modDependencyMap[A] = <<B>>
    /\ modDependencyMap[B] = <<A>>

TransitiveOf(name) ==
    LET i == CHOOSE k \in 1..Len(girModules) : girModules[k].packageName = name
    IN  girModules[i].transitiveDependencies

\* C4 as stated: with the cycle A->B, B->A, A's transitiveDependencies is exactly
\* {B} and B's is exactly {A}.
C4_Original ==
    \A A, B \in PackageNames :
        TwoCycle(A, B) =>
            /\ Range(TransitiveOf(A)) = {B}
            /\ Range(TransitiveOf(B)) = {A}

\* C4 amended: with the cycle A->B, B->A, A's transitiveDependencies is [B, A]
\* and B's is [A, B]: each module lists the other and then itself, once.
C4_CycleIncludesSelf ==
    \A A, B \in PackageNames :
        TwoCycle(A, B) =>
            /\ TransitiveOf(A) = <<B, A>>
            /\ TransitiveOf(B) = <<A, B>>

\* a returned load of exactly two modules that depend on each other
C4_Witness == \E A, B \in PackageNames : TwoCycle(A, B)

\* C5: in every state of a load, no two entries of `loaded` have the same
\* package name.
C5_UniquePackageNames ==
    \A i, j \in 1..Len(girModules) :
        i # j => girModules[i].packageName # girModules[j].packageName

\* the loader meets, in a recursive pass, a name that is already loaded
C5_Witness ==
    /\ pc = "loadGirModules"
    /\ Len(stack) >= 2
    /\ Top.at = "drain" /\ Top.girToLoad # <<>>
    /\ Head(Top.girToLoad) \in LoadedNames
    /\ Len(girModules) >= 2

\* the names loadGirModules has taken from a queue once it has returned: the
\* requested ones and the transitive dependencies it recursed on
Processed ==
    Range(foundGirModules)
        \cup UNION {Range(girModules[i].transitiveDependencies) : i \in 1..Len(girModules)}

\* C6: a name without a document is warned about once, when it enters `failed`,
\* however often it is met again; and when the load has returned, every processed
\* name without a document is in `failed` and every one with a document is loaded.
C6_MissingDocument ==
    /\ \A n \in PackageNames :
        /\ warnNoGir[n] <= 1
        /\ n \in failedGirModules <=> warnNoGir[n] = 1
        /\ n \in failedGirModules => n \notin girFiles
    /\ LoadReturned =>
        \A n \in Processed :
            IF n \in girFiles
            THEN n \in LoadedNames
            ELSE n \in failedGirModules /\ warnNoGir[n] = 1

\* a returned load that met a name without a document in a pass after the one
\* that recorded it as failed, and loaded a module all the same
C6_Witness ==
    /\ pc = "loaded"
    /\ Len(girModules) >= 2
    /\ \E n \in failedGirModules :
        Cardinality({i \in 1..Len(girModules) :
                        includes(girModules[i].transitiveDependencies, n)}) >= 2

\* C7 as stated: every name passed in `modules` that is not loaded was warned
\* about, and a requested name without a document is in the returned `failed`.
C7_Original ==
    pc = "done" =>
        \A k \in 1..Len(modules) :
            LET name == modules[k] IN
            (name # Wildcard /\ name \notin LoadedNames) =>
                /\ name \in warnIgnore \/ warnNoGir[name] > 0
                /\ name \notin girFiles => name \in returned.failed

\* C8: an ignored transitive dependency that has a document is loaded all the
\* same (and kept when conflict prompting is skipped), and a warning names it and
\* the module that depends on it.
C8_IgnoredDependencyLoaded ==
    LET keptAll == /\ pc = "done"
                   /\ call.entry = "getModulesResolved"
                   /\ call.doNotAskForVersionOnConflict
    IN  (LoadReturned \/ keptAll) =>
            \A i \in 1..Len(girModules) :
                \A D \in Range(girModules[i].transitiveDependencies) :
                    (includes(ignore, D) /\ D \in girFiles) =>
                        /\ D \in LoadedNames
                        /\ <<D, girModules[i].packageName>> \in warnDepIgnored
                        /\ keptAll => \E k \in 1..Len(returned.keep) :
                                          girModules[returned.keep[k]].packageName = D

\* getModulesResolved, prompting skipped, has returned a module whose transitive
\* dependency is in the ignore list and has a document
C8_Witness ==
    /\ pc = "done"
    /\ call.entry = "getModulesResolved" /\ call.doNotAskForVersionOnConflict
    /\ \E i \in 1..Len(girModules) :
        \E D \in Range(girModules[i].transitiveDependencies) :
            includes(ignore, D) /\ D \in girFiles /\ D # girModules[i].packageName

\* C9: with conflict prompting skipped, getModulesResolved issues no prompt,
\* returns the loaded list as `keep` (same modules, same order) and returns the
\* ignore list it was given.
C9_KeepAllWithoutPrompt ==
    (pc = "done" /\ call.entry = "getModulesResolved"
        /\ call.doNotAskForVersionOnConflict) =>
        /\ prompts = NoPrompts
        /\ PackageNamesOf(girModules, returned.keep)
               = [i \in 1..Len(girModules) |-> girModules[i].packageName]
        /\ returned.ignore = ignore

\* two modules share a namespace, case-insensitively
SharedNamespace(mods) ==
    \E i, j \in 1..Len(mods) :
        /\ i # j
        /\ toLowerCase(splitModuleName(mods[i].packageName))
               = toLowerCase(splitModuleName(mods[j].packageName))

\* getModulesResolved, prompting skipped, has returned two versions of a namespace
C9_Witness ==
    /\ pc = "done"
    /\ call.entry = "getModulesResolved" /\ call.doNotAskForVersionOnConflict
    /\ SharedNamespace(girModules)
    /\ Len(ignore) > 0

AskedAndDone ==
    /\ pc = "done"
    /\ call.entry = "getModulesResolved" /\ ~call.doNotAskForVersionOnConflict

\* C10 as stated: with no two loaded modules sharing a namespace, and any ignore
\* list, getModulesResolved with prompting enabled keeps exactly the loaded set
\* and issues no prompt at all.
C10_Original ==
    (AskedAndDone /\ ~SharedNamespace(girModules)) =>
        /\ Range(returned.keep) = 1..Len(girModules)
        /\ prompts = NoPrompts

\* C10 amended: with no two loaded modules sharing a namespace,
\* getModulesResolved with prompting enabled keeps exactly the loaded modules
\* whose package name is not in the ignore list, issues no version, cascade or
\* continue prompt, and issues the persist-to-config prompt once if the ignore
\* list is not empty and never if it is empty.
C10_NoConflictNoVersionPrompt ==
    (AskedAndDone /\ ~SharedNamespace(girModules)) =>
        /\ Range(returned.keep) =
               {i \in 1..Len(girModules) : ~includes(ignore, girModules[i].packageName)}
        /\ prompts.version = 0 /\ prompts.ignoreDeps = 0 /\ prompts.continue = 0
        /\ prompts.addToIgnore = IF Len(ignore) > 0 THEN 1 ELSE 0

\* prompting enabled, two loaded modules of different namespaces, one of them in
\* the ignore list
C10_Witness ==
    /\ AskedAndDone
    /\ ~SharedNamespace(girModules)
    /\ Len(girModules) >= 2
    /\ \E i \in 1..Len(girModules) : includes(ignore, girModules[i].packageName)

\* ---------------------------------------------------------------------------
\* Grouping by namespace

\* the group and the position at which module i of the loaded list is filed
FiledAt(i) ==
    {gk \in (1..Len(girModulesGrouped)) \X (1..Len(girModules)) :
        /\ gk[2] <= Len(girModulesGrouped[gk[1]].modules)
        /\ girModulesGrouped[gk[1]].modules[gk[2]] = i}

\* groupGirFiles has just returned the groups of the loaded modules
JustGrouped == pc = "forEachGroup" /\ groupIdx = 1

\* C11: groupGirFiles partitions the loaded modules: every module is filed in
\* exactly one group, whose key is its namespace in lower case, so that
\* namespaces that differ only in case share a group; no two groups have the
\* same key; the members of a group are in the order of the input; and
\* hasConflict is set exactly on the groups with two or more members.
C11_GroupsPartitionByLowercasedNamespace ==
    JustGrouped =>
        /\ \A i \in 1..Len(girModules) :
               /\ Cardinality(FiledAt(i)) = 1
               /\ \A gk \in FiledAt(i) :
                      girModulesGrouped[gk[1]].id =
                          toLowerCase(splitModuleName(girModules[i].packageName))
        /\ \A g, h \in 1..Len(girModulesGrouped) :
               girModulesGrouped[g].id = girModulesGrouped[h].id => g = h
        /\ \A g \in 1..Len(girModulesGrouped) :
               LET group == girModulesGrouped[g]
               IN  /\ Len(group.modules) >= 1
                   /\ \A k \in 1..Len(group.modules) :
                          group.modules[k] \in 1..Len(girModules)
                   /\ \A k, l \in 1..Len(group.modules) :
                          k < l => group.modules[k] < group.modules[l]
                   /\ group.hasConflict <=> Len(group.modules) >= 2

\* three versions of Gtk, one of them spelled GTK, share the group "gtk" in
\* the order they were loaded, next to the single-member group "gdk"
C11_Witness ==
    /\ JustGrouped
    /\ Len(girModulesGrouped) = 2
    /\ \E g, h \in 1..2 :
           /\ girModulesGrouped[g].id = "gtk"
           /\ PackageNamesOf(girModules, girModulesGrouped[g].modules)
                  = <<"GTK-2.0", "Gtk-3.0", "Gtk-4.0">>
           /\ girModulesGrouped[g].hasConflict
           /\ girModulesGrouped[h].id = "gdk"
           /\ ~girModulesGrouped[h].hasConflict

\* ---------------------------------------------------------------------------
\* Answers to the version question

\* the group the resolver is asking about
AskedGroup == girModulesGrouped[groupIdx]

\* the version question was answered 'All' and the next question is pending
AnsweredAll ==
    /\ pc = "askIgnoreDeps"
    /\ versionAnswer.selected = PackageNamesOf(girModules, AskedGroup.modules)

\* C12: when the version question of a conflicted group is answered 'All', no
\* reverse dependent is found, and confirming asks only the continue question,
\* adds every member of the group to keep and adds nothing to ignore.
C12_AllKeepsEveryMember ==
    [][(AnsweredAll /\ AskIgnoreDepsAnswered("Yes")) =>
          /\ wouldIgnoreDeps = <<>>
          /\ prompts' = [prompts EXCEPT !.continue = @ + 1]
          /\ Range(keep') = Range(keep) \cup Range(AskedGroup.modules)
          /\ resIgnore' = resIgnore
          /\ pc' = "forEachGroup"]_vars

\* the group just settled is the conflicted group before the current one
Settled == pc = "forEachGroup" /\ groupIdx > 1 /\ girModulesGrouped[groupIdx - 1].hasConflict

\* a group of three versions has been settled with 'All' and one continue
\* question, although a module outside the group depends on one of the three
C12_Witness ==
    /\ Settled
    /\ Len(versionAnswer.selected) = 3
    /\ Len(girModulesGrouped[groupIdx - 1].modules) = 3
    /\ Range(girModulesGrouped[groupIdx - 1].modules) \subseteq Range(keep)
    /\ prompts = [NoPrompts EXCEPT !.version = 1, !.continue = 1]
    /\ \E m \in 1..Len(girModules) :
           /\ ~includes(girModulesGrouped[groupIdx - 1].modules, m)
           /\ \E d \in Range(girModulesGrouped[groupIdx - 1].modules) :
                  includes(girModules[m].dependencies, girModules[d].packageName)

\* the version question was answered with the package name of member m of
\* the asked group and the next question is pending
PickedOne(m) ==
    /\ pc = "askIgnoreDeps"
    /\ includes(AskedGroup.modules, m)
    /\ versionAnswer.selected = <<girModules[m].packageName>>

\* package names of the members of the asked group other than m
OtherMembers(m) ==
    {girModules[o].packageName : o \in Range(AskedGroup.modules) \ {m}}

\* package names of the loaded modules, not yet ignored, that depend on a
\* member of the asked group other than m
ReverseDependents(m) ==
    {girModules[d].packageName : d \in
        {x \in 1..Len(girModules) :
            /\ ~includes(resIgnore, girModules[x].packageName)
            /\ \E u \in OtherMembers(m) :
                   /\ u # girModules[x].packageName
                   /\ includes(girModules[x].dependencies, u)}}

ReturnedAfterCascade ==
    /\ AskedAndDone
    /\ prompts.version > 0
    /\ Len(versionAnswer.selected) = 1
    /\ Len(wouldIgnoreDeps) > 0
    /\ \A d \in Range(wouldIgnoreDeps) : includes(resIgnore, girModules[d].packageName)

\* package names of the versions that were not chosen
UnselectedVersions ==
    {girModules[o].packageName : o \in
        {x \in 1..Len(girModules) :
            /\ ~includes(versionAnswer.selected, girModules[x].packageName)
            /\ \E g \in 1..Len(girModulesGrouped) :
                   /\ girModulesGrouped[g].hasConflict
                   /\ includes(girModulesGrouped[g].modules, x)}}

\* C14: after a single version was chosen and the cascade answered 'Yes', the
\* ignore list getModulesResolved returns contains the package name of every
\* cascaded dependent and of every version that was not chosen.
C14_Original ==
    ReturnedAfterCascade =>
        /\ \A d \in Range(wouldIgnoreDeps) :
               includes(returned.ignore, girModules[d].packageName)
        /\ \A u \in UnselectedVersions : includes(returned.ignore, u)

\* C15: when conflict resolution has finished, no module in keep has its package
\* name in the resolver's ignore list, so that no cascaded module is kept.
C15_Original ==
    (AskedAndDone /\ prompts.ignoreDeps > 0) =>
        \A k \in Range(keep) : ~includes(resIgnore, girModules[k].packageName)

\* ---------------------------------------------------------------------------
\* Go back

\* C16: 'Go back' leaves keep, the resolver's ignore list and the groups as
\* they were before the version question, which leaves them alone too, and the
\* next prompt is the version question of the same group; the selection that
\* is confirmed afterwards therefore starts from the state a direct selection
\* starts from.
C16_GoBackChangesNothing ==
    [][/\ AskIgnoreDepsGoBack =>
              /\ keep' = keep /\ resIgnore' = resIgnore
              /\ girModulesGrouped' = girModulesGrouped /\ groupIdx' = groupIdx
              /\ pc' = "askForVersions"
       /\ pc = "askForVersions" =>
              /\ keep' = keep /\ resIgnore' = resIgnore
              /\ girModulesGrouped' = girModulesGrouped /\ groupIdx' = groupIdx
       /\ (pc = "askForVersions" /\ pc' # "aborted") =>
              /\ pc' = "askIgnoreDeps"
              /\ prompts'.version = prompts.version + 1]_vars

\* a selection that orphans a dependent was given up with 'Go back' and the
\* version question of the same group is pending again, nothing kept or
\* ignored for the group
C16_Witness ==
    /\ pc = "askForVersions"
    /\ goBacks = 1
    /\ prompts = [NoPrompts EXCEPT !.version = 1, !.ignoreDeps = 1]
    /\ Len(wouldIgnoreDeps) > 0
    /\ AskedGroup.hasConflict
    /\ resIgnore = ignore
    /\ \A m \in Range(AskedGroup.modules) : ~includes(keep, m)

\* ---------------------------------------------------------------------------
\* Answers that are no choice

\* the version question was answered with a string that is neither 'All' nor
\* the package name of a member of the asked group; the next question is pending
PickedNonMember ==
    /\ pc = "askIgnoreDeps"
    /\ Len(versionAnswer.selected) = 1
    /\ ~includes(generateModuleVersionQuestion(girModules, AskedGroup),
                 versionAnswer.selected[1])

C18_Original ==
    [][/\ pc = "askForVersions" =>
              \/ pc' = "aborted" /\ error' = "No valid answer!"
              \/ pc' = "askIgnoreDeps" /\ ~includes(versionAnswer'.selected, "")
       /\ AskIgnoreDepsAnswered("") => pc' = "aborted"]_vars

\* ---------------------------------------------------------------------------
\* The symbol table's keys

\* string s is p followed by '.' and anything
HasPrefixDot(p, s) == \E n \in 1..Len(s) : SubSeq(s, 1, n) = p \o <<".">>

\* the text of s before its first '.'
BeforeFirstDot(s) ==
    LET dot == CHOOSE i \in 1..Len(s) : s[i] = "." /\ \A j \in 1..(i - 1) : s[j] # "."
    IN  SubSeq(s, 1, dot - 1)

\* positions of the entries of `dependencies` that start with the foreign
\* namespace of s and '-'
Matching(dependencies, s) ==
    {i \in 1..Len(dependencies) :
        \E n \in 1..Len(dependencies[i]) :
            SubSeq(dependencies[i], 1, n) = BeforeFirstDot(s) \o <<"-">>}

\* none of the rules (1) to (3) applies to the reference of call c
Foreign(c) ==
    /\ ~HasPrefixDot(c.self.modPackageName, c.implementation)
    /\ ~HasPrefixDot(c.self.modNamespace, c.implementation)
    /\ \E i \in 1..Len(c.implementation) : c.implementation[i] = "."

\* the key the rules (1) to (4) give for the inputs of call c
RuleKey(c) ==
    IF HasPrefixDot(c.self.modPackageName, c.implementation)
    THEN c.implementation
    ELSE IF HasPrefixDot(c.self.modNamespace, c.implementation)
    THEN c.self.modPackageName \o <<".">> \o c.implementation
    ELSE IF ~Foreign(c)
    THEN c.self.modPackageName \o <<".">> \o c.self.modNamespace \o <<".">>
             \o c.implementation
    ELSE IF Matching(c.dependencies, c.implementation) = {}
    THEN NullKey
    ELSE LET first == CHOOSE i \in Matching(c.dependencies, c.implementation) :
                          \A j \in Matching(c.dependencies, c.implementation) : i <= j
         IN  c.dependencies[first] \o <<".">> \o c.implementation

\* C19: getKey returns the key of the first applicable of the rules (1) to
\* (4), null if rule (4) finds no dependency; the key depends on the
\* dependencies, the reference and the owner's package name and namespace
\* only, and the call leaves the table as it was.
C19_GetKeyRules ==
    [][(symCalls' # symCalls /\ symCall'.method = "getKey") =>
          /\ symCall'.key = RuleKey(symCall')
          /\ items' = items]_vars

\* with an element in the table, getKey from Gdk-3.0's SymTable resolves
\* Gtk.Window through the first of two matching dependencies
C19_Witness ==
    /\ symCall.method = "getKey"
    /\ symCall.self.modNamespace = <<"Gdk">>
    /\ symCall.implementation = <<"Gtk", ".", "Window">>
    /\ symCall.dependencies = <<<<"Gtk", "-", "4", ".", "0">>, <<"Gtk", "-", "3", ".", "0">>>>
    /\ symCall.key = <<"Gtk", "-", "4", ".", "0", ".", "Gtk", ".", "Window">>
    /\ DOMAIN items # {}

\* C20: a call whose reference has a foreign namespace that no dependency
\* matches computes no key and logs exactly one warning, with that namespace
\* and the reference; get returns null, and set, like the others, leaves the
\* table as it was.
C20_UnresolvedReference ==
    [][(symCalls' # symCalls /\ Foreign(symCall')
            /\ Matching(symCall'.dependencies, symCall'.implementation) = {}) =>
          /\ symCall'.key = NullKey
          /\ warned' = Append(warned,
                              [namespace |-> BeforeFirstDot(symCall'.implementation),
                               implementation |-> symCall'.implementation])
          /\ symCall'.result = "null"
          /\ items' = items]_vars

\* set of Foo.Bar with no dependencies, after an element was stored: one
\* warning naming Foo, the table still holds the one element
C20_Witness ==
    /\ symCall.method = "set"
    /\ symCall.implementation = <<"Foo", ".", "Bar">>
    /\ symCall.dependencies = <<>>
    /\ symCall.key = NullKey
    /\ warned = <<[namespace |-> <<"Foo">>, implementation |-> <<"Foo", ".", "Bar">>]>>
    /\ Cardinality(DOMAIN items) = 1

\* ---------------------------------------------------------------------------
\* One key per type

\* the type name the references of SymReferences are about
TypeName == <<"Window">>

\* the key of the type TypeName of the module P
TypeKey(P) == P.modPackageName \o <<".">> \o P.modNamespace \o <<".">> \o TypeName

\* call c, made on P's own SymTable, names P's type bare, by the shorthand or
\* fully qualified
OwnReference(c, P) ==
    /\ c.self = P
    /\ c.implementation \in {TypeName,
                              P.modNamespace \o <<".">> \o TypeName,
                              TypeKey(P)}

\* the dependencies of call c contain P, and no earlier entry starts with P's
\* namespace and '-'
FirstDependency(c, P) ==
    \E i \in 1..Len(c.dependencies) :
        /\ c.dependencies[i] = P.modPackageName
        /\ \A j \in 1..(i - 1) :
               ~\E n \in 1..Len(c.dependencies[j]) :
                   SubSeq(c.dependencies[j], 1, n) = P.modNamespace \o <<"-">>

\* call c, made on the SymTable of another module, names P's type by the
\* shorthand
ShorthandFromOther(c, P) ==
    /\ c.self # P
    /\ c.implementation = P.modNamespace \o <<".">> \o TypeName
    /\ FirstDependency(c, P)

\* the element the table holds under key k, "null" if none
Stored(table, k) == IF k \in DOMAIN table THEN table[k] ELSE "null"

\* C21 as stated: the bare, shorthand and qualified references in the owner's
\* SymTable, and the shorthand in the SymTable of any other module that has
\* the owner as its first matching dependency, all give the key P.N.T.
C21_Original ==
    \A P \in SymTables :
        (OwnReference(symCall, P) \/ ShorthandFromOther(symCall, P)) =>
            symCall.key = TypeKey(P)

\* C21 amended: the same, the other module being one of another namespace;
\* get then returns what the table holds under P.N.T, set stores its element
\* there, and no set for one version changes what is stored for another.
C21_OneKeyPerType ==
    [][symCalls' # symCalls =>
          \A P \in SymTables :
              (\/ OwnReference(symCall', P)
               \/ /\ ShorthandFromOther(symCall', P)
                  /\ symCall'.self.modNamespace # P.modNamespace) =>
                  /\ symCall'.key = TypeKey(P)
                  /\ symCall'.method = "get" =>
                         symCall'.result = Stored(items, TypeKey(P))
                  /\ symCall'.method = "set" =>
                         /\ Stored(items', TypeKey(P)) \in GirElements
                         /\ \A Q \in SymTables \ {P} :
                                Stored(items', TypeKey(Q)) = Stored(items, TypeKey(Q))
                  /\ symCall'.method # "set" => items' = items]_vars

\* get of Gtk.Window from Gdk-3.0's SymTable returns the element stored under
\* Gtk-3.0.Gtk.Window, while nothing is stored for Gtk-4.0
C21_Witness ==
    /\ symCall.method = "get"
    /\ symCall.self.modNamespace = <<"Gdk">>
    /\ symCall.implementation = <<"Gtk", ".", "Window">>
    /\ symCall.dependencies = <<<<"Gtk", "-", "3", ".", "0">>>>
    /\ symCall.key = <<"Gtk", "-", "3", ".", "0", ".", "Gtk", ".", "Window">>
    /\ symCall.result \in GirElements
    /\ DOMAIN items = {symCall.key}

\* ---------------------------------------------------------------------------
\* One table for every instance and every run

\* the element stored last under key k
LastWritten(k) == written[k][Len(written[k])]

\* C22: the table is shared by every instance and never loses an entry: a
\* call leaves every entry in place, only set changes an element and only
\* that of its own key, which then holds the element of this last set; get
\* and getByHand return the element stored last under the key, whichever
\* instance or run stored it.
C22_SharedTableLastWriterWins ==
    [][symCalls' # symCalls =>
          /\ DOMAIN items \subseteq DOMAIN items'
          /\ \A k \in DOMAIN items :
                 (symCall'.method # "set" \/ symCall'.key # k) => items'[k] = items[k]
          /\ DOMAIN items' = DOMAIN written'
          /\ \A k \in DOMAIN items' : items'[k] = LastWritten(k)'
          /\ (symCall'.method \in {"get", "getByHand"} /\ symCall'.key \in DOMAIN written) =>
                 symCall'.result = LastWritten(symCall'.key)]_vars

\* two sets stored element1 and then element2 under the key of Gtk-3.0's
\* Window, and the get that follows, from Gtk-3.0's SymTable, returns element2
C22_Witness ==
    /\ symCalls = 3
    /\ symCall.method = "get"
    /\ symCall.self.modPackageName = <<"Gtk", "-", "3", ".", "0">>
    /\ symCall.implementation = <<"Window">>
    /\ symCall.key \in DOMAIN written
    /\ written[symCall.key] = <<"element1", "element2">>
    /\ symCall.result = "element2"

\* ---------------------------------------------------------------------------
\* What askForVersionsPrompt returns

\* C23: when one member of a conflicted group is picked, askForVersionsPrompt
\* returns that name as the only selected one and, as unselected, the package
\* names of the other members of the group and nothing else.
C23_Original ==
    \A m \in 1..Len(girModules) :
        PickedOne(m) =>
            /\ versionAnswer.selected = <<girModules[m].packageName>>
            /\ Range(versionAnswer.unselected) = OtherMembers(m)

\* ---------------------------------------------------------------------------
\* The reverse dependents offered

\* the loaded modules, not named in the resolver's ignore list, that declare a
\* dependency on a name of versionAnswer.unselected
DependOnUnselected ==
    {m \in 1..Len(girModules) :
        /\ ~includes(resIgnore, girModules[m].packageName)
        /\ \E u \in Range(versionAnswer.unselected) :
               includes(girModules[m].dependencies, u)}

\* C24 as stated: the reverse dependents offered are exactly the loaded modules
\* not in the current ignore list that depend on an unselected name, and the
\* three-way question is asked if and only if there is one.
C24_Original ==
    [][pc = "askIgnoreDeps" =>
          /\ Range(wouldIgnoreDeps) = DependOnUnselected
          /\ prompts' = IF DependOnUnselected # {}
                        THEN [prompts EXCEPT !.ignoreDeps = @ + 1]
                        ELSE [prompts EXCEPT !.continue = @ + 1]]_vars

\* the loaded modules, not named in the resolver's ignore list, that declare a
\* dependency on a name of versionAnswer.unselected other than their own name
DependOnOtherUnselected ==
    {m \in 1..Len(girModules) :
        /\ ~includes(resIgnore, girModules[m].packageName)
        /\ \E u \in Range(versionAnswer.unselected) :
               /\ u # girModules[m].packageName
               /\ includes(girModules[m].dependencies, u)}

\* C24, amended: the reverse dependents offered are exactly the loaded modules
\* not in the current ignore list that depend on an unselected name other than
\* their own, and the three-way question is asked if and only if there is one,
\* the two-way question otherwise.
C24_ReverseDependentsOffered ==
    [][pc = "askIgnoreDeps" =>
          /\ Range(wouldIgnoreDeps) = DependOnOtherUnselected
          /\ prompts' = IF DependOnOtherUnselected # {}
                        THEN [prompts EXCEPT !.ignoreDeps = @ + 1]
                        ELSE [prompts EXCEPT !.continue = @ + 1]]_vars

\* the three-way question was asked about a reverse dependent, while a module
\* that depends on nothing but itself was unselected
C24_Witness ==
    /\ pc = "forEachGroup"
    /\ prompts.ignoreDeps > 0 /\ prompts.continue = 0
    /\ wouldIgnoreDeps # <<>>
    /\ \E m \in 1..Len(girModules) :
          /\ includes(versionAnswer.unselected, girModules[m].packageName)
          /\ girModules[m].dependencies = <<girModules[m].packageName>>

\* ---------------------------------------------------------------------------
\* The report of the discard list and the persist-to-config prompt

\* the step that issues the persist-to-config prompt
AddToIgnoreAsked == prompts'.addToIgnore # prompts.addToIgnore

\* C25: in one interactive resolution the persist-to-config prompt is issued at
\* most once, only when the loop over the groups is over, after which no
\* version, cascade or continue question follows; the resolver returns having
\* issued it if and only if its ignore list is not empty; and the only list the
\* config store is ever handed is that full ignore list.
C25_PersistPromptOnceAtEnd ==
    [][/\ prompts'.addToIgnore <= 1
       /\ AddToIgnoreAsked =>
             /\ call.entry = "getModulesResolved" /\ ~call.doNotAskForVersionOnConflict
             /\ groupIdx > Len(girModulesGrouped)
             /\ Len(resIgnore) > 0
             /\ configIgnore' \subseteq {resIgnore}
       /\ ~AddToIgnoreAsked => UNCHANGED configIgnore
       /\ prompts.addToIgnore > 0 =>
             /\ prompts'.version = prompts.version
             /\ prompts'.ignoreDeps = prompts.ignoreDeps
             /\ prompts'.continue = prompts.continue
             /\ resIgnore' = resIgnore
       /\ (pc # "done" /\ AskedAndDone') =>
             (AddToIgnoreAsked <=> Len(resIgnore) > 0)]_vars

\* the prompt was issued after a version and a cascade question, answered
\* 'Yes', and the list handed over holds the caller's names and the names added
\* for the group
C25_Witness ==
    /\ AskedAndDone
    /\ prompts.addToIgnore = 1 /\ prompts.version > 0 /\ prompts.ignoreDeps > 0
    /\ configIgnore = {resIgnore}
    /\ ignore # <<>> /\ Len(resIgnore) > Len(ignore)

\* ---------------------------------------------------------------------------
\* The origin of a loaded module

\* the names the top-level call of loadGirModules was asked to read
Requested == Range(foundGirModules)

\* C26: when the top-level loadGirModules call returns, every requested name
\* that has a document is loaded with origin BY_HAND, every other loaded module
\* has origin DEPENDENCE, and no step changes the name or the origin of a
\* module already appended.
C26_OriginOfLoadedModules ==
    [][/\ LoadReturned' =>
             /\ \A n \in Requested' \cap girFiles' :
                   \E i \in 1..Len(girModules') :
                       /\ girModules'[i].packageName = n
                       /\ girModules'[i].resolvedBy = ResolveType.BY_HAND
             /\ \A i \in 1..Len(girModules') :
                   girModules'[i].packageName \notin Requested' =>
                       girModules'[i].resolvedBy = ResolveType.DEPENDENCE
       /\ Len(girModules') >= Len(girModules)
       /\ \A i \in 1..Len(girModules) :
             /\ girModules'[i].packageName = girModules[i].packageName
             /\ girModules'[i].resolvedBy = girModules[i].resolvedBy]_vars

\* the loader returned two requested modules of which one depends on the other,
\* and a dependency that was not requested
C26_Witness ==
    /\ LoadReturned
    /\ \E i, j, k \in 1..Len(girModules) :
          /\ i # j
          /\ {girModules[i].packageName, girModules[j].packageName} \subseteq Requested
          /\ includes(girModules[j].dependencies, girModules[i].packageName)
          /\ girModules[i].resolvedBy = ResolveType.BY_HAND
          /\ girModules[k].packageName \notin Requested
          /\ girModules[k].resolvedBy = ResolveType.DEPENDENCE

\* ---------------------------------------------------------------------------
\* What getModulesResolved returns

\* the case-insensitive namespace of a loaded module
NamespaceId(m) == toLowerCase(splitModuleName(girModules[m].packageName))

\* getModulesResolved has returned, in either mode
ResolvedDone == pc = "done" /\ call.entry = "getModulesResolved"

\* the answer that settled the conflicted group, if one was asked about, named
\* one version
NoAllAnswer == prompts.version = 0 \/ Len(versionAnswer.selected) = 1

\* `grouped` files every module of `kept` once, under its own lowercased
\* namespace, one group per namespace, with hasConflict set on the groups of
\* two members or more
GroupingOf(grouped, kept) ==
    /\ \A g \in 1..Len(grouped) :
          /\ grouped[g].modules # <<>>
          /\ grouped[g].modules =
                 SelectSeq(kept, LAMBDA m : NamespaceId(m) = grouped[g].id)
          /\ grouped[g].hasConflict = (Len(grouped[g].modules) >= 2)
          /\ \A h \in 1..Len(grouped) : grouped[h].id = grouped[g].id => h = g
    /\ \A i \in 1..Len(kept) :
          \E g \in 1..Len(grouped) : grouped[g].id = NamespaceId(kept[i])

\* C27: after getModulesResolved with conflict prompting enabled and no 'All'
\* answer, keep holds at most one module per case-insensitive namespace and
\* every returned group has one member and no conflict; in every mode the
\* returned grouped is the grouping of the returned keep.
C27_OneVersionPerNamespaceKept ==
    /\ (AskedAndDone /\ NoAllAnswer) =>
          /\ \A i, j \in 1..Len(returned.keep) :
                NamespaceId(returned.keep[i]) = NamespaceId(returned.keep[j]) => i = j
          /\ \A g \in 1..Len(returned.grouped) :
                /\ Len(returned.grouped[g].modules) = 1
                /\ ~returned.grouped[g].hasConflict
    /\ ResolvedDone => GroupingOf(returned.grouped, returned.keep)

\* the resolver returned after one version of a conflicted namespace was
\* picked, keeping it and a module of another namespace and dropping the rest
C27_Witness ==
    /\ AskedAndDone
    /\ prompts.version > 0 /\ Len(versionAnswer.selected) = 1
    /\ Len(returned.keep) = 2 /\ Len(returned.grouped) = 2
    /\ Len(girModules) = 3

====
